---- MODULE Spec2Model ----
(***************************************************************************)
(* Model of trainers/utils/igp_utils.py: the two surface samplers          *)
(* (get_surf_pcl_defaut, get_surf_pcl_with_rejection), the tangential      *)
(* projection, the deformation weight and sample_points_for_loss.          *)
(*                                                                         *)
(* Floating point numbers are fixed-point values in units of 1/SCALE with  *)
(* the IEEE special values: a number is <<"f", v>> (the value v/SCALE),    *)
(* <<"nan", 0>> or <<"inf", s>> with s the sign.  A point is a sequence of *)
(* dim numbers, a batch is a sequence of points.                           *)
(***************************************************************************)
EXTENDS Integers, Sequences, FiniteSets, TLC

VARIABLES
    pc,               \* position in the running call
    fn,               \* the function called from outside
    sp,               \* arguments of the surface sampler (get_surf_pcl*)
    out,              \* get_surf_pcl_defaut: out (None or a batch)
    out_cnt,          \* both samplers: out_cnt
    already_repeated, \* get_surf_pcl_defaut: already_repeated
    x,                \* the current batch x
    i,                \* get_surf_pcl_defaut: the loop index of `for i in range(steps)`
    result,           \* the value returned
    err,              \* the exception raised, "" when none
    log,              \* history: the points accepted by each attempt / batch, oldest first
    batches,          \* history: the candidate batches drawn so far (counted up to MaxBatches)
    wp,               \* arguments of compute_deform_weight called from outside
    weight,           \* the weight computed: its row of values and whether it tracks gradients
    lp,               \* arguments of sample_points_for_loss
    calls,            \* history: the calls of deform.invert and compute_deform_weight, in order
    ret               \* the values sample_points_for_loss returns

callerVars == <<wp, weight, lp, calls, ret>>
vars == <<pc, fn, sp, out, out_cnt, already_repeated, x, i, result, err, log, batches, callerVars>>

-----------------------------------------------------------------------------
(* Bounds of the model *)
MaxN == 2         \* npoints ranges over 1..MaxN
MaxSteps == 2     \* steps ranges over 0..MaxSteps
MaxRepeat == 2    \* max_repeat ranges over 0..MaxRepeat
MaxBatch == 2     \* batch_size ranges over 1..MaxBatch (the default 100000 is scaled down to it)
MaxBatches == 3   \* the history counter of drawn batches stops counting here

(* One unit is 1/SCALE = 1e-4, the default eps *)
SCALE == 10000

Dims == {2, 3}

-----------------------------------------------------------------------------
(* Numbers *)
\* F applied to the values of its arguments, each computed once
S1(F(_), a) == CHOOSE r \in {F(s) : s \in {a}} : TRUE
S2(F(_, _), a, b) == CHOOSE r \in {F(s, t) : s \in {a}, t \in {b}} : TRUE
S3(F(_, _, _), a, b, c) == CHOOSE r \in {F(s, t, u) : s \in {a}, t \in {b}, u \in {c}} : TRUE
S5(F(_, _, _, _, _), a, b, c, d, e) ==
    CHOOSE r \in {F(s, t, u, v, w) : s \in {a}, t \in {b}, u \in {c}, v \in {d}, w \in {e}} : TRUE
Fin(v) == <<"f", v>>
NaN == <<"nan", 0>>
Inf(s) == <<"inf", s>>
IsFin(a) == a[1] = "f"
IsNaN(a) == a[1] = "nan"
IsInf(a) == a[1] = "inf"
Zero == Fin(0)
One == Fin(SCALE)

AbsInt(n) == IF n < 0 THEN -n ELSE n
SignInt(n) == IF n < 0 THEN -1 ELSE 1
\* p / q rounded to the nearest integer, halves away from zero (q # 0)
RoundDiv(p, q) == SignInt(p) * SignInt(q) * ((2 * AbsInt(p) + AbsInt(q)) \div (2 * AbsInt(q)))

Neg(a_) == S1(LAMBDA a : (
    IF IsFin(a) THEN Fin(-a[2]) ELSE IF IsInf(a) THEN Inf(-a[2]) ELSE NaN), a_)
Abs(a_) == S1(LAMBDA a : (
    IF IsFin(a) THEN Fin(AbsInt(a[2])) ELSE IF IsInf(a) THEN Inf(1) ELSE NaN), a_)
Add(a_, b_) == S2(LAMBDA a, b : (
        IF IsNaN(a) \/ IsNaN(b) THEN NaN
        ELSE IF IsInf(a) /\ IsInf(b) THEN (IF a[2] = b[2] THEN a ELSE NaN)
        ELSE IF IsInf(a) THEN a
        ELSE IF IsInf(b) THEN b
        ELSE Fin(a[2] + b[2])), a_, b_)
Sub(a, b) == Add(a, Neg(b))
Mul(a_, b_) == S2(LAMBDA a, b : (
        IF IsNaN(a) \/ IsNaN(b) THEN NaN
        ELSE IF IsInf(a) \/ IsInf(b)
             THEN (IF a[2] = 0 \/ b[2] = 0 THEN NaN ELSE Inf(SignInt(a[2]) * SignInt(b[2])))
        ELSE Fin(RoundDiv(a[2] * b[2], SCALE))), a_, b_)
Div(a_, b_) == S2(LAMBDA a, b : (
        IF IsNaN(a) \/ IsNaN(b) THEN NaN
        ELSE IF IsInf(a) THEN (IF IsInf(b) THEN NaN ELSE Inf(a[2] * SignInt(b[2])))
        ELSE IF IsInf(b) THEN Zero
        ELSE IF b[2] = 0 THEN (IF a[2] = 0 THEN NaN ELSE Inf(SignInt(a[2])))
        ELSE Fin(RoundDiv(a[2] * SCALE, b[2]))), a_, b_)
\* a < b ; every comparison with NaN is false
Lt(a_, b_) == S2(LAMBDA a, b : (
        IF IsNaN(a) \/ IsNaN(b) THEN FALSE
        ELSE IF IsInf(a) THEN a[2] = -1 /\ b # a
        ELSE IF IsInf(b) THEN b[2] = 1
        ELSE a[2] < b[2]), a_, b_)
Le(a_, b_) == S2(LAMBDA a, b : (
    Lt(a, b) \/ (~IsNaN(a) /\ a = b)), a_, b_)

RECURSIVE SqrtSearch(_, _, _)
SqrtSearch(v_, lo_, hi_) == S3(LAMBDA v, lo, hi : (
        IF lo >= hi THEN lo
        ELSE LET mid == (lo + hi + 1) \div 2
             IN  IF mid * mid <= v THEN SqrtSearch(v, mid, hi) ELSE SqrtSearch(v, lo, mid - 1)), v_, lo_, hi_)
\* floor of the square root of v >= 0
ISqrt(v) == SqrtSearch(v, 0, 46340)

-----------------------------------------------------------------------------
(* Vectors and batches *)
\* the sequence <<F(1), ..., F(n)>>, written out for the short lengths so that
\* its entries are computed once
Tab(n, F(_)) ==
    CASE n = 0 -> <<>>
      [] n = 1 -> <<F(1)>>
      [] n = 2 -> <<F(1), F(2)>>
      [] n = 3 -> <<F(1), F(2), F(3)>>
      [] n = 4 -> <<F(1), F(2), F(3), F(4)>>
      [] OTHER -> [k \in 1..n |-> F(k)]
RECURSIVE SumSq(_, _)
\* the sum of the squares of the first k entries, in units^2; -1 for "not finite"
SumSq(v_, k_) == S2(LAMBDA v, k : (
        IF k = 0 THEN 0
        ELSE LET r == SumSq(v, k - 1)
             IN  IF r < 0 \/ ~IsFin(v[k]) THEN -1 ELSE r + v[k][2] * v[k][2]), v_, k_)
\* torch norm(dim=-1): NaN wins over inf
Norm(v_) == S1(LAMBDA v : (
        IF \E k \in 1..Len(v) : IsNaN(v[k]) THEN NaN
        ELSE IF \E k \in 1..Len(v) : IsInf(v[k]) THEN Inf(1)
        ELSE Fin(ISqrt(SumSq(v, Len(v))))), v_)
VSub(u_, v_) == S2(LAMBDA u, v : (
    Tab(Len(u), LAMBDA k : Sub(u[k], v[k]))), u_, v_)
VAdd(u_, v_) == S2(LAMBDA u, v : (
    Tab(Len(u), LAMBDA k : Add(u[k], v[k]))), u_, v_)
VScale(v_, c_) == S2(LAMBDA v, c : (
    Tab(Len(v), LAMBDA k : Mul(v[k], c))), v_, c_)
VDiv(v_, c_) == S2(LAMBDA v, c : (
    Tab(Len(v), LAMBDA k : Div(v[k], c))), v_, c_)
Unit(dim, k, c) == Tab(dim, LAMBDA j : IF j = k THEN c ELSE Zero)
Take(s_, n_) == S2(LAMBDA s, n : (
    IF Len(s) <= n THEN s ELSE SubSeq(s, 1, n)), s_, n_)
\* the entries of s whose mask entry is true, in order
RECURSIVE Select(_, _)
Select(s_, m_) == S2(LAMBDA s, m : (
        IF Len(s) = 0 THEN <<>>
        ELSE (IF m[1] THEN <<s[1]>> ELSE <<>>) \o Select(Tail(s), Tail(m))), s_, m_)

-----------------------------------------------------------------------------
(* The implicit fields (the callable `net`) and their gradients, which the *)
(* code obtains from trainers.utils.diff_ops.gradient                      *)
Fields == {"plane", "zero", "one", "far"}
\* net(x) at one point
FieldVal(net_, p_) == S2(LAMBDA net, p : (
        CASE net = "plane" -> Sub(p[1], Fin(SCALE \div 2))
          [] net = "zero"  -> Zero
          [] net = "one"   -> One
          [] net = "far"   -> Add(p[1], Fin(SCALE + SCALE \div 5))), net_, p_)
\* gradient(y, x) at one point
FieldGrad(net_, p_) == S2(LAMBDA net, p : (
        CASE net = "plane" -> Unit(Len(p), 1, One)
          [] net = "zero"  -> Tab(Len(p), LAMBDA k : Zero)
          [] net = "one"   -> Tab(Len(p), LAMBDA k : Zero)
          [] net = "far"   -> Unit(Len(p), 1, One)), net_, p_)
NetBatch(net_, b_) == S2(LAMBDA net, b : (
    Tab(Len(b), LAMBDA k : FieldVal(net, b[k]))), net_, b_)

\* the points torch.rand(., dim) * 2 - 1 may draw, each in [-1, 1)^dim
UniformDraws(dim) ==
    { Unit(dim, 1, Fin(-SCALE)),
      Tab(dim, LAMBDA j : IF j = 1 THEN Fin(SCALE \div 2) ELSE IF j = 2 THEN Fin(SCALE \div 4) ELSE Zero),
      Unit(dim, 1, Fin(5200)) }
\* the vectors torch.randn_like may draw for one point
NormalDraws(dim) == { Tab(dim, LAMBDA j : Zero), Unit(dim, 1, One) }

RECURSIVE Pow(_, _)
\* a ** n
Pow(a_, n_) == S2(LAMBDA a, n : (
    IF n = 0 THEN One ELSE Mul(Pow(a, n - 1), a)), a_, n_)

\* torch.allclose(y, zeros_like(y)): |y - 0| <= atol + rtol * |0|, atol = 1e-8
AllClose(y_) == S1(LAMBDA y : (
    \A k \in 1..Len(y) : Le(Abs(y[k]), Fin(RoundDiv(SCALE, 100000000)))), y_)

\* torch.clamp(v, min=lo, max=hi) on one number (NaN stays NaN)
Clamp1(a_, lo_, hi_) == S3(LAMBDA a, lo, hi : (
    IF IsNaN(a) THEN NaN ELSE IF Lt(a, lo) THEN lo ELSE IF Lt(hi, a) THEN hi ELSE a), a_, lo_, hi_)
Clamp(v_, lo_, hi_) == S3(LAMBDA v, lo, hi : (
    Tab(Len(v), LAMBDA k : Clamp1(v[k], lo, hi))), v_, lo_, hi_)

NoneBatch == [none |-> TRUE, pts |-> <<>>]
Some(b) == [none |-> FALSE, pts |-> b]

-----------------------------------------------------------------------------
(* get_surf_pcl_defaut *)

\* sigma_i = noise_sigma * sigma_decay ** i
SigmaI(a, k) == Mul(a.noise_sigma, Pow(a.sigma_decay, k))
\* x = x.detach() + torch.randn_like(x) * sigma_i
AddNoise(b_, z_, sigma_) == S3(LAMBDA b, z, sigma : (
    Tab(Len(b), LAMBDA k : VAdd(b[k], VScale(z[k], sigma)))), b_, z_, sigma_)
\* g = g / (g.norm(dim=-1, keepdim=True) + eps)
NormalizeFloored(g_, eps_) == S2(LAMBDA g, eps : (
    VDiv(g, Add(Norm(g), eps))), g_, eps_)
\* x = torch.clamp(x - g * y, min=-bound, max=bound), one point
ProjectPoint(a_, p_) == S2(LAMBDA a, p : (
        LET y == FieldVal(a.net, p)
            g == NormalizeFloored(FieldGrad(a.net, p), a.eps)
        IN  Clamp(VSub(p, VScale(g, y)), Neg(a.bound), a.bound)), a_, p_)
\* the projection of every point of the batch
ProjectBatch(a_, b_) == S2(LAMBDA a, b : (
    Tab(Len(b), LAMBDA k : ProjectPoint(a, b[k]))), a_, b_)
\* a mutant of FilterMask: the residual is compared without its absolute value
FilterMaskNoAbs(a_, b_) == S2(LAMBDA a, b : (
    Tab(Len(b), LAMBDA k : Lt(FieldVal(a.net, b[k]), a.eps))), a_, b_)
\* mask = (torch.abs(y) < eps)
FilterMask(a_, b_) == S2(LAMBDA a, b : (
    Tab(Len(b), LAMBDA k : Lt(Abs(FieldVal(a.net, b[k])), a.eps))), a_, b_)

\* a mutant of Accumulated: the new points are put after the earlier ones
AccumulatedAfter(o, acc) == IF o.none THEN acc ELSE o.pts \o acc
\* a mutant of LoopCond: one attempt too many
LoopCondOffByOne(a, cnt, rep) == cnt < a.npoints /\ rep <= a.max_repeat

\* out = x if out is None else torch.cat([x, out], dim=0)
Accumulated(o, acc) == IF o.none THEN acc ELSE acc \o o.pts
\* while out_cnt < npoints and already_repeated < max_repeat
LoopCond(a, cnt, rep) == cnt < a.npoints /\ rep < a.max_repeat

\* the call returns to its caller
Return(v) ==
    /\ result' = v
    /\ pc' = IF fn = "loss" THEN "loss_sampled" ELSE "done"
    /\ err' = err
Raise(e) ==
    /\ err' = e
    /\ pc' = "error"
    /\ result' = result

\* while out_cnt < npoints and already_repeated < max_repeat: draw a fresh batch
DefAttempt ==
    /\ pc = "def_while"
    /\ LoopCond(sp, out_cnt, already_repeated)
    /\ already_repeated' = already_repeated + 1
    /\ \E b \in [1..sp.npoints -> UniformDraws(sp.dim)] : x' = b
    /\ i' = 0
    /\ pc' = IF sp.steps > 0 THEN "def_for" ELSE "def_filter"
    /\ UNCHANGED <<callerVars, fn, sp, out, out_cnt, result, err, log, batches>>

\* one iteration of `for i in range(steps)`
DefStep ==
    /\ pc = "def_for"
    /\ i < sp.steps
    /\ \E z \in [1..sp.npoints -> NormalDraws(sp.dim)] :
         LET xn == AddNoise(x, z, SigmaI(sp, i))
         IN  IF sp.net = "None"
             THEN /\ x' = xn /\ i' = i /\ Raise("TypeError")   \* None is not callable
             ELSE /\ IF AllClose(NetBatch(sp.net, xn))
                     THEN /\ x' = xn
                          /\ i' = i
                          /\ pc' = "def_filter"
                     ELSE /\ x' = ProjectBatch(sp, xn)
                          /\ i' = i + 1
                          /\ pc' = IF i + 1 < sp.steps THEN "def_for" ELSE "def_filter"
                  /\ UNCHANGED <<result, err>>
    /\ UNCHANGED <<callerVars, fn, sp, out, out_cnt, already_repeated, log, batches>>

\* the code after the for loop: filter and accumulate, or keep the raw batch
DefFilter ==
    /\ pc = "def_filter"
    /\ IF sp.filtered /\ sp.net = "None"
       THEN /\ Raise("TypeError")      \* None is not callable
            /\ UNCHANGED <<x, out, out_cnt, log>>
       ELSE /\ IF sp.filtered
               THEN LET acc == Select(x, FilterMask(sp, x))
                    IN  /\ x' = acc
                        /\ out_cnt' = out_cnt + Len(acc)
                        /\ out' = Some(Accumulated(out, acc))
                        /\ log' = Append(log, acc)
               ELSE /\ out' = Some(x)
                    /\ out_cnt' = sp.npoints
                    /\ x' = x
                    /\ log' = Append(log, x)
            /\ pc' = "def_while"
            /\ UNCHANGED <<result, err>>
    /\ UNCHANGED <<callerVars, fn, sp, already_repeated, i, batches>>

\* out = out[:npoints, :]; return out
DefExit ==
    /\ pc = "def_while"
    /\ ~LoopCond(sp, out_cnt, already_repeated)
    /\ IF out.none
       THEN Raise("TypeError")   \* None is not subscriptable
       ELSE Return(Take(out.pts, sp.npoints))
    /\ UNCHANGED <<callerVars, fn, sp, out, out_cnt, already_repeated, x, i, log, batches>>

-----------------------------------------------------------------------------
(* get_surf_pcl_with_rejection *)

\* m = (torch.abs(net(x)) < thr)
RejectionMask(a_, b_) == S2(LAMBDA a, b : (
    Tab(Len(b), LAMBDA k : Lt(Abs(FieldVal(a.net, b[k])), a.thr))), a_, b_)
RECURSIVE Cat(_)
\* torch.cat(list, dim=0)
Cat(l_) == S1(LAMBDA l : (
    IF Len(l) = 0 THEN <<>> ELSE l[1] \o Cat(Tail(l))), l_)
\* a mutant of Accumulate: the new batch is put first
AccumulateFirst(l, b) == <<b>> \o l
\* out.append(x_eq)
Accumulate(l, b) == Append(l, b)
\* g = g / g.norm(dim=-1, keepdim=True)
Normalize(g_) == S1(LAMBDA g : (
    VDiv(g, Norm(g))), g_)
\* x = x - g * y, one point
GStepPoint(a_, p_) == S2(LAMBDA a, p : (
        LET y == FieldVal(a.net, p)
            g == Normalize(FieldGrad(a.net, p))
        IN  VSub(p, VScale(g, y))), a_, p_)
\* the corrective step on every point of the batch
GStepBatch(a_, b_) == S2(LAMBDA a, b : (
    Tab(Len(b), LAMBDA k : GStepPoint(a, b[k]))), a_, b_)
Bump(n) == IF n < MaxBatches THEN n + 1 ELSE n

\* one pass of `while out_cnt < npoints` whose batch holds no accepted candidate
RejDrawNone ==
    /\ pc = "rej_while"
    /\ out_cnt < sp.npoints
    /\ \E b \in [1..sp.batch_size -> UniformDraws(sp.dim)] :
         /\ x' = b
         /\ IF sp.net = "None"
            THEN Raise("TypeError")          \* None is not callable
            ELSE /\ Len(Select(b, RejectionMask(sp, b))) < 1    \* if m_cnt < 1: continue
                 /\ UNCHANGED <<pc, result, err>>
    /\ batches' = Bump(batches)
    /\ UNCHANGED <<callerVars, fn, sp, out, out_cnt, already_repeated, i, log>>

\* one pass of `while out_cnt < npoints` whose batch holds accepted candidates
RejDrawAccept ==
    /\ pc = "rej_while"
    /\ out_cnt < sp.npoints
    /\ sp.net # "None"
    /\ \E b \in [1..sp.batch_size -> UniformDraws(sp.dim)] :
         LET m    == RejectionMask(sp, b)
             x_eq == Select(b, m)
         IN  /\ ~(Len(x_eq) < 1)
             /\ x' = b
             /\ out' = Some(Accumulate(out.pts, x_eq))
             /\ out_cnt' = out_cnt + Len(x_eq)
             /\ log' = Append(log, x_eq)
    /\ batches' = Bump(batches)
    /\ UNCHANGED <<callerVars, pc, fn, sp, already_repeated, i, result, err>>

\* the code after the loop: truncate, the optional corrective step, return
RejExit ==
    /\ pc = "rej_while"
    /\ ~(out_cnt < sp.npoints)
    /\ LET sel == Take(Cat(out.pts), sp.npoints)
       IN  /\ x' = sel
           /\ IF sp.gstep
              THEN Return(GStepBatch(sp, sel))
              ELSE Return(sel)
    /\ UNCHANGED <<callerVars, fn, sp, out, out_cnt, already_repeated, i, log, batches>>

-----------------------------------------------------------------------------
(* Batched linear algebra: one matrix is a sequence of rows *)

\* outter(v1, v2), one pair of vectors: [v1] [v2]^T
Outer(v1_, v2_) == S2(LAMBDA v1, v2 : (
    Tab(Len(v1), LAMBDA r : Tab(Len(v2), LAMBDA c : Mul(v1[r], v2[c])))), v1_, v2_)
MScale(m_, c_) == S2(LAMBDA m, c : (
    Tab(Len(m), LAMBDA r : VScale(m[r], c))), m_, c_)
MAdd(m_, n_) == S2(LAMBDA m, n : (
    Tab(Len(m), LAMBDA r : VAdd(m[r], n[r]))), m_, n_)
\* _addr_(mat, vec1, vec2, alpha, beta), one point: alpha * outter(vec1, vec2) + beta * mat
Addr(mat_, vec1_, vec2_, alpha_, beta_) == S5(LAMBDA mat, vec1, vec2, alpha, beta : (
    MAdd(MScale(Outer(vec1, vec2), alpha), MScale(mat, beta))), mat_, vec1_, vec2_, alpha_, beta_)
\* torch.eye(dim)
Eye(dim) == Tab(dim, LAMBDA r : Tab(dim, LAMBDA c : IF r = c THEN One ELSE Zero))
RECURSIVE Dot(_, _, _)
Dot(u_, v_, k_) == S3(LAMBDA u, v, k : (
    IF k = 0 THEN Zero ELSE Add(Dot(u, v, k - 1), Mul(u[k], v[k]))), u_, v_, k_)
\* torch.bmm, one pair of matrices
MatMul(m_, n_) == S2(LAMBDA m, n : (
        Tab(Len(m), LAMBDA r : Tab(Len(n[1]), LAMBDA c :
            Dot(m[r], Tab(Len(n), LAMBDA k : n[k][c]), Len(n))))), m_, n_)
\* torch.linalg.det of a 2x2 or 3x3 matrix
Det(m_) == S1(LAMBDA m : (
        IF Len(m) = 2
        THEN Sub(Mul(m[1][1], m[2][2]), Mul(m[1][2], m[2][1]))
        ELSE Add(Sub(Mul(m[1][1], Sub(Mul(m[2][2], m[3][3]), Mul(m[2][3], m[3][2]))),
                     Mul(m[1][2], Sub(Mul(m[2][1], m[3][3]), Mul(m[2][3], m[3][1])))),
                 Mul(m[1][3], Sub(Mul(m[2][1], m[3][2]), Mul(m[2][2], m[3][1]))))), m_)
RECURSIVE SumSeq(_)
\* weight.sum(dim=-1)
SumSeq(ws_) == S1(LAMBDA ws : (
    IF Len(ws) = 0 THEN Zero ELSE Add(ws[1], SumSeq(Tail(ws)))), ws_)

-----------------------------------------------------------------------------
(* The deformation maps (the callable `deform`), their Jacobians, which    *)
(* the code obtains from trainers.utils.diff_ops.jacobian, and their       *)
(* inverse solver deform.invert                                            *)
Deforms == {"id", "warp", "flat"}
Two == Fin(2 * SCALE)
\* deform(x) at one point
DeformVal(d_, p_) == S2(LAMBDA d, p : (
        CASE d = "id"   -> p
          [] d = "warp" -> Tab(Len(p), LAMBDA k : IF k = 2 THEN Mul(p[2], Add(Two, p[1])) ELSE p[k])
          [] d = "flat" -> Tab(Len(p), LAMBDA k : IF k = 2 THEN Zero ELSE p[k])), d_, p_)
\* jacobian(y, x) at one point
DeformJac(d_, p_) == S2(LAMBDA d, p : (
        CASE d = "id"   -> Eye(Len(p))
          [] d = "warp" -> Tab(Len(p), LAMBDA r : Tab(Len(p), LAMBDA c :
                              IF r = 2 /\ c = 1 THEN p[2]
                              ELSE IF r = 2 /\ c = 2 THEN Add(Two, p[1])
                              ELSE IF r = c THEN One ELSE Zero))
          [] d = "flat" -> Tab(Len(p), LAMBDA r : Tab(Len(p), LAMBDA c :
                              IF r = c /\ r # 2 THEN One ELSE Zero))), d_, p_)
\* deform.invert(y, iters) at one point: an approximate preimage
DeformInvert(d_, q_) == S2(LAMBDA d, q : (
        CASE d = "id"   -> q
          [] d = "warp" -> Tab(Len(q), LAMBDA k : IF k = 2 THEN Div(q[2], Add(Two, q[1])) ELSE q[k])
          [] d = "flat" -> q), d_, q_)

-----------------------------------------------------------------------------
(* tangential_projection_matrix and compute_deform_weight *)

\* normals = grad / grad.norm(dim=-1, keepdim=True), one point
Normal(net_, p_) == S2(LAMBDA net, p : (
    VDiv(FieldGrad(net, p), Norm(FieldGrad(net, p)))), net_, p_)
\* normals_proj = _addr_(eye, normals, normals, alpha=-1), one point
NormalProj(n_) == S1(LAMBDA n : (
    Addr(Eye(Len(n)), n, n, Neg(One), One)), n_)

\* the Jacobian whose determinant is taken, one point
WeightJac(a_, p_) == S2(LAMBDA a, p : (
        LET y == DeformVal(a.deform, p)
            J == DeformJac(a.deform, p)
        IN  IF a.surface
            THEN LET yn == Normal(a.y_net, y)
                     xn == Normal(a.x_net, p)
                 IN  Addr(MatMul(J, NormalProj(xn)), yn, xn, One, One)
            ELSE J), a_, p_)
\* weight = 1. / (|det J| ** 2 if dim == 3 else |det J|), one point
RawWeight(a_, p_) == S2(LAMBDA a, p : (
        LET w == Abs(Det(WeightJac(a, p)))
        IN  Div(One, IF Len(p) = 3 THEN Mul(w, w) ELSE w)), a_, p_)
\* weight = weight / weight.sum(dim=-1, keepdim=True) * npoints
NormalizeWeights(ws_) == S1(LAMBDA ws : (
        Tab(Len(ws), LAMBDA k : Mul(Div(ws[k], SumSeq(ws)), Fin(Len(ws) * SCALE)))), ws_)
\* the value compute_deform_weight returns when it returns
DeformWeight(a_, b_) == S2(LAMBDA a, b : (
        LET raw == Tab(Len(b), LAMBDA k : RawWeight(a, b[k]))
        IN  [ w |-> IF a.normalize THEN NormalizeWeights(raw) ELSE raw,
              requires_grad |-> ~a.detach ]), a_, b_)
\* the exception compute_deform_weight raises, "" when it returns
DeformWeightError(a, status) ==
    IF a.deform = "None" THEN "TypeError"
    ELSE IF status # 0 THEN "AssertionError"
    ELSE IF a.surface /\ (a.y_net = "None" \/ a.x_net = "None") THEN "TypeError"
    ELSE ""

\* compute_deform_weight called from outside
WeightCall ==
    /\ pc = "weight_start"
    /\ \E status \in {0, 1} :
         LET e == DeformWeightError(wp, status)
         IN  IF e # ""
             THEN /\ err' = e /\ pc' = "error" /\ weight' = weight
             ELSE /\ weight' = DeformWeight(wp, x) /\ pc' = "done" /\ err' = err
    /\ UNCHANGED <<fn, sp, wp, lp, calls, ret, out, out_cnt, already_repeated, x, i, result, log, batches>>

-----------------------------------------------------------------------------
(* get_surf_pcl and sample_points_for_loss *)

LossSteps == 5
InvertIters == 30
DefaultMaxRepeat == 10

\* get_surf_pcl: the arguments it hands to the sampler it selects; eps, max_repeat,
\* bound, rejection_bs and rejection_thr are its defaults
GetSurfPcl(net, npoints, dim, steps, noise_sigma, filtered, sigma_decay, use_rejection) ==
    [ kind |-> IF use_rejection THEN "rejection" ELSE "defaut",
      npoints |-> npoints, dim |-> dim, steps |-> steps, eps |-> Fin(1),
      noise_sigma |-> noise_sigma, filtered |-> filtered, sigma_decay |-> sigma_decay,
      max_repeat |-> DefaultMaxRepeat, bound |-> Fin(SCALE - 1), net |-> net,
      batch_size |-> MaxBatch, thr |-> Fin(500), gstep |-> TRUE ]

\* a mutant of LossFiltered: the surface sampler is asked to filter
LossFilteredOn == TRUE
\* a mutant of LossSurface: the weight is never restricted to the surface
LossSurfaceOff(use_surf_points) == FALSE
\* a mutant of LossSurfAsserts: the inverted path checks deform alone
LossSurfAssertsDeformOnly(a) ==
    IF a.invert_sampling
    THEN (IF a.deform = "None" THEN "AssertionError" ELSE "")
    ELSE (IF a.net = "None" THEN "AssertionError" ELSE "")

\* the `filtered` argument of the two get_surf_pcl calls
LossFiltered == FALSE
\* the `surface` argument of the compute_deform_weight call
LossSurface(use_surf_points) == use_surf_points
\* the field the surface points are sampled on
LossSurfaceField(a) == IF a.invert_sampling THEN a.gtr ELSE a.net
\* the assertions of the surface paths: the exception raised, "" when they pass
LossSurfAsserts(a) ==
    IF a.invert_sampling
    THEN (IF a.deform = "None" \/ a.gtr = "None" THEN "AssertionError" ELSE "")
    ELSE (IF a.net = "None" THEN "AssertionError" ELSE "")
\* the arguments of the compute_deform_weight call
LossWeightArgs(a) ==
    [ deform |-> a.deform, y_net |-> a.gtr, x_net |-> a.net,
      surface |-> LossSurface(a.use_surf_points), detach |-> a.detach_weight, normalize |-> TRUE ]
\* torch.ones(1, npoints)
Ones(n) == [w |-> Tab(n, LAMBDA k : One), requires_grad |-> FALSE]
InvertCall(y) == [op |-> "invert", arg |-> y, iters |-> InvertIters, surface |-> FALSE, detach |-> FALSE]
WeightCallOf(a, b) == [op |-> "weight", arg |-> b, iters |-> 0, surface |-> a.surface, detach |-> a.detach]

\* x.view(bs, npoints, dim) with bs = 1: the batch as one row of npoints points
ViewOk(b, npoints) == Len(b) = npoints
\* x = x.view(bs, npoints, dim); weight = weight.view(bs, npoints); return
LossReturn(b, wt) ==
    IF ViewOk(b, lp.npoints) /\ ViewOk(wt.w, lp.npoints)
    THEN /\ ret' = IF lp.return_weight
                   THEN << <<b>>, [w |-> <<wt.w>>, requires_grad |-> wt.requires_grad] >>
                   ELSE << <<b>> >>
         /\ pc' = "done"
         /\ err' = err
    ELSE /\ err' = "RuntimeError"       \* shape is invalid for input size
         /\ pc' = "error"
         /\ ret' = ret

\* deform.invert on every point of the batch
InvertBatch(d_, y_) == S2(LAMBDA d, y : (
    Tab(Len(y), LAMBDA k : DeformInvert(d, y[k]))), d_, y_)
\* x = deform.invert(y, iters=30); weight = compute_deform_weight(...) and the rest of
\* the function; y is the batch of target points
LossInvertAndWeight(y) ==
    LET xb == InvertBatch(lp.deform, y)
        a  == LossWeightArgs(lp)
    IN  \E status \in {0, 1} :
          LET e == DeformWeightError(a, status)
          IN  /\ x' = xb
              /\ calls' = calls \o <<InvertCall(y), WeightCallOf(a, xb)>>
              /\ IF e # ""
                 THEN /\ Raise(e)
                      /\ UNCHANGED <<weight, ret>>
                 ELSE LET wt == DeformWeight(a, xb)
                      IN  /\ weight' = wt
                          /\ LossReturn(xb, wt)

\* the surface paths up to the call of get_surf_pcl
LossSurfBegin ==
    /\ pc = "loss_start"
    /\ lp.use_surf_points
    /\ IF LossSurfAsserts(lp) # ""
       THEN /\ Raise(LossSurfAsserts(lp))
            /\ UNCHANGED <<sp, out>>
       ELSE /\ sp' = GetSurfPcl(LossSurfaceField(lp), lp.npoints, lp.dim, LossSteps,
                                Fin(10), LossFiltered, One, lp.use_rejection)
            /\ pc' = IF lp.use_rejection THEN "rej_while" ELSE "def_while"
            /\ out' = IF lp.use_rejection THEN Some(<<>>) ELSE NoneBatch
            /\ UNCHANGED <<result, err>>
    /\ UNCHANGED <<fn, wp, lp, weight, calls, ret, out_cnt, already_repeated, x, i, log, batches>>

\* the surface paths after get_surf_pcl has returned
LossSurfFinish ==
    /\ pc = "loss_sampled"
    /\ IF lp.invert_sampling
       THEN LossInvertAndWeight(result)
       ELSE /\ x' = result
            /\ weight' = Ones(lp.npoints)
            /\ calls' = calls
            /\ LossReturn(result, Ones(lp.npoints))
    /\ UNCHANGED <<fn, sp, wp, lp, out, out_cnt, already_repeated, i, result, log, batches>>

\* the volumetric paths
LossVolumetric ==
    /\ pc = "loss_start"
    /\ ~lp.use_surf_points
    /\ \E b \in [1..lp.npoints -> UniformDraws(lp.dim)] :
         IF lp.invert_sampling
         THEN IF lp.deform = "None"
              THEN /\ x' = b
                   /\ weight' = Ones(lp.npoints)
                   /\ Raise("AssertionError")
                   /\ UNCHANGED <<calls, ret>>
              ELSE LossInvertAndWeight(b)
         ELSE /\ x' = b
              /\ weight' = Ones(lp.npoints)
              /\ calls' = calls
              /\ LossReturn(b, Ones(lp.npoints))
    /\ UNCHANGED <<fn, sp, wp, lp, out, out_cnt, already_repeated, i, result, log, batches>>

-----------------------------------------------------------------------------
(* The calls made from outside *)
NoArgs == [kind |-> "none"]
NoWeight == [w |-> <<>>, requires_grad |-> FALSE]

\* the arguments of get_surf_pcl_defaut, the others at their defaults
DefautArgs ==
    [ kind : {"defaut"}, npoints : 1..MaxN, dim : Dims, steps : 0..MaxSteps, eps : {Fin(1)},
      noise_sigma : {Fin(100)}, filtered : BOOLEAN, sigma_decay : {One, Fin(SCALE \div 2)},
      max_repeat : 0..MaxRepeat, bound : {Fin(SCALE - 1)}, net : Fields,
      batch_size : {MaxBatch}, thr : {Fin(500)}, gstep : {TRUE} ]

\* the arguments of get_surf_pcl_with_rejection, the others at their defaults
RejectionArgs ==
    [ kind : {"rejection"}, npoints : 1..MaxN, dim : Dims, steps : {0}, eps : {Fin(1)},
      noise_sigma : {Fin(100)}, filtered : {TRUE}, sigma_decay : {One},
      max_repeat : {0}, bound : {Fin(SCALE - 1)}, net : Fields,
      batch_size : 1..MaxBatch, thr : {Fin(500)}, gstep : BOOLEAN ]

WeightArgs ==
    [ deform : Deforms, y_net : {"plane", "zero"}, x_net : {"plane", "zero"},
      surface : BOOLEAN, detach : BOOLEAN, normalize : BOOLEAN ]

InitCommon ==
    /\ out_cnt = 0 /\ already_repeated = 0 /\ i = 0
    /\ result = <<>> /\ err = "" /\ log = <<>> /\ batches = 0
    /\ weight = NoWeight /\ calls = <<>> /\ ret = <<>>

InitDefaut ==
    /\ fn = "defaut"
    /\ sp \in DefautArgs
    /\ pc = "def_while"
    /\ out = NoneBatch /\ x = <<>>
    /\ wp = NoArgs /\ lp = NoArgs
    /\ InitCommon

InitRejection ==
    /\ fn = "rejection"
    /\ sp \in RejectionArgs
    /\ pc = "rej_while"
    /\ out = Some(<<>>) /\ x = <<>>
    /\ wp = NoArgs /\ lp = NoArgs
    /\ InitCommon

InitWeight ==
    /\ fn = "weight"
    /\ wp \in WeightArgs
    /\ pc = "weight_start"
    /\ \E n \in 1..MaxN, dim \in Dims : x \in [1..n -> UniformDraws(dim)]
    /\ out = NoneBatch
    /\ sp = NoArgs /\ lp = NoArgs
    /\ InitCommon

LossArgs ==
    [ npoints : 1..MaxN, dim : Dims, use_surf_points : BOOLEAN, invert_sampling : BOOLEAN,
      return_weight : BOOLEAN, detach_weight : BOOLEAN, use_rejection : BOOLEAN,
      gtr : {"plane", "one", "None"}, net : {"plane", "None"},
      deform : {"warp", "None"} ]

InitLoss ==
    /\ fn = "loss"
    /\ lp \in LossArgs
    /\ pc = "loss_start"
    /\ out = NoneBatch /\ x = <<>>
    /\ sp = NoArgs /\ wp = NoArgs
    /\ InitCommon

NextDefaut == DefAttempt \/ DefStep \/ DefFilter \/ DefExit
NextRejection == RejDrawNone \/ RejDrawAccept \/ RejExit

SpecDefaut == InitDefaut /\ [][NextDefaut]_vars
SpecRejection == InitRejection /\ [][NextRejection]_vars
SpecWeight == InitWeight /\ [][WeightCall]_vars
NextLoss == LossSurfBegin \/ LossSurfFinish \/ LossVolumetric \/ NextDefaut \/ NextRejection
SpecLoss == InitLoss /\ [][NextLoss]_vars

\* a call of any of the four functions
Init == InitDefaut \/ InitRejection \/ InitWeight \/ InitLoss
Next == NextLoss \/ WeightCall
Spec == Init /\ [][Next]_vars

\* the statements of a call run one after the other until it returns or raises
LiveDefaut == SpecDefaut /\ WF_vars(NextDefaut)
\* the same, and a batch that holds accepted candidates is drawn whenever
\* such batches keep being possible
LiveRejection == SpecRejection /\ WF_vars(RejDrawAccept) /\ WF_vars(RejExit)

-----------------------------------------------------------------------------
(* Properties of get_surf_pcl_defaut *)

Terminated == pc \in {"done", "error"}
Min(a, b) == IF a < b THEN a ELSE b
RECURSIVE NewestFirst(_)
\* the points of the attempts of l, the last attempt's first
NewestFirst(l) == IF Len(l) = 0 THEN <<>> ELSE l[Len(l)] \o NewestFirst(SubSeq(l, 1, Len(l) - 1))
\* the number of points accepted by the first k attempts (or batches)
AcceptedBy(k) == Len(Cat(SubSeq(log, 1, k)))
Residual(p) == Abs(FieldVal(sp.net, p))

\* C1: in filtered mode every returned point has |field(point)| < eps at its final
\* position, and was accepted by the filter of its own attempt
C1_ReturnedPointsPassFilter ==
    (pc = "done" /\ sp.filtered) =>
        \A k \in 1..Len(result) :
            /\ Lt(Residual(result[k]), sp.eps)
            /\ \E t \in 1..Len(log) : \E j \in 1..Len(log[t]) : log[t][j] = result[k]
\* a filtered call returned points although one of its attempts lost a point to the filter
C1_Witness ==
    /\ pc = "done" /\ sp.filtered /\ sp.steps >= 1
    /\ Len(result) >= 1
    /\ \E t \in 1..Len(log) : Len(log[t]) < sp.npoints

C5_Bounded ==
    /\ already_repeated <= sp.max_repeat
    /\ Len(log) <= already_repeated
    /\ i <= sp.steps
    /\ \A k \in 1..(Len(log) - 1) : AcceptedBy(k) < sp.npoints
    /\ (Terminated /\ sp.filtered) =>
          (AcceptedBy(Len(log)) >= sp.npoints \/ already_repeated = sp.max_repeat)
    /\ ~sp.filtered => already_repeated <= 1
    /\ (Terminated /\ ~sp.filtered) => already_repeated = Min(1, sp.max_repeat)
C6_ShortfallReturnsAccepted ==
    (Terminated /\ sp.filtered /\ already_repeated >= sp.max_repeat /\ out_cnt < sp.npoints) =>
        (pc = "done" /\ Len(result) = Min(sp.npoints, AcceptedBy(Len(log))))

\* C9: in filtered mode the result is the first npoints points of the accepted points
\* taken with the most recent attempt first
C9_NewestAttemptFirst ==
    (pc = "done" /\ sp.filtered) => result = Take(NewestFirst(log), sp.npoints)
\* more than npoints points were accepted over several attempts, and points of the
\* first attempt were dropped
C9_Witness ==
    /\ pc = "done" /\ sp.filtered
    /\ Len(log) >= 2 /\ AcceptedBy(Len(log)) > sp.npoints
    /\ Len(log[1]) >= 1 /\ Len(log[Len(log)]) >= 1
    /\ result # Take(Cat(log), sp.npoints)

-----------------------------------------------------------------------------
(* Properties of get_surf_pcl_with_rejection *)

\* some candidate the sampler may draw passes the threshold
AcceptPossible == \E p \in UniformDraws(sp.dim) : Lt(Residual(p), sp.thr)
C4_Safety ==
    /\ out_cnt = AcceptedBy(Len(log))
    /\ \A k \in 1..(Len(log) - 1) : AcceptedBy(k) < sp.npoints
    /\ \A k \in 1..Len(log) :
          Len(log[k]) >= 1 /\ \A j \in 1..Len(log[k]) : Lt(Residual(log[k][j]), sp.thr)
    /\ (pc = "rej_while" /\ out_cnt < sp.npoints) => ENABLED (RejDrawNone \/ RejDrawAccept)
    /\ pc = "done" =>
          /\ out_cnt >= sp.npoints
          /\ Len(result) = sp.npoints
          /\ x = Take(Cat(log), sp.npoints)
          /\ ~sp.gstep => result = x
          /\ sp.gstep => \A k \in 1..sp.npoints : result[k] = GStepPoint(sp, x[k])
\* C4: batches are drawn, with no bound on their number, until npoints candidates are
\* accepted; the loop is left at the first batch that brings the count to npoints; the
\* call then returns exactly npoints points, the first npoints accepted candidates in
\* acceptance order (after the corrective step when gstep is set); it never terminates
\* when no candidate can be accepted, and terminates when accepting batches keep being drawn
C4_RejectionLoop ==
    /\ []C4_Safety
    /\ ~AcceptPossible => [](pc = "rej_while")
    /\ AcceptPossible => <>(pc = "done")
\* a call returned after an empty batch and several accepting batches that together
\* held more than npoints candidates
C4_Witness ==
    /\ pc = "done" /\ fn = "rejection"
    /\ Len(log) >= 2 /\ AcceptedBy(Len(log)) > sp.npoints
    /\ batches > Len(log)
    /\ log[1] # log[2]

-----------------------------------------------------------------------------
(* Properties of compute_deform_weight and of the normalisations *)

AllFinite(v) == \A k \in 1..Len(v) : IsFin(v[k])
\* C8: with normalize=True the returned weights sum to npoints (up to rounding)
C8_NormalizedWeightsSumToNpoints ==
    (fn = "weight" /\ pc = "done" /\ wp.normalize) =>
        LET total == SumSeq(weight.w)
        IN  /\ IsFin(total)
            /\ AbsInt(total[2] - Len(x) * SCALE) <= Len(x) * Len(x)
\* the same where every raw weight is finite, that is where no determinant is zero or NaN
C8_HoldsForRegularJacobians ==
    (fn = "weight" /\ pc = "done" /\ wp.normalize
        /\ \A k \in 1..Len(x) : IsFin(RawWeight([wp EXCEPT !.normalize = FALSE], x[k]))) =>
        LET total == SumSeq(weight.w)
        IN  /\ IsFin(total)
            /\ AbsInt(total[2] - Len(x) * SCALE) <= Len(x) * Len(x)

\* C10: no returned point and no returned weight is NaN or infinite: every division
\* by a gradient norm or by |det J| is floored
C10_NoDivisionByZero ==
    /\ (pc = "done" /\ fn \in {"defaut", "rejection"}) =>
          \A k \in 1..Len(result) : AllFinite(result[k])
    /\ (pc = "done" /\ fn = "weight") => AllFinite(weight.w)

-----------------------------------------------------------------------------
(* Properties of sample_points_for_loss *)

InSampler == pc \in {"def_while", "def_for", "def_filter", "rej_while"}
NothingSampled == x = <<>> /\ batches = 0 /\ already_repeated = 0
FailedOnEntry ==
    /\ pc \in {"loss_start", "error"}
    /\ pc = "error" => err = "AssertionError"
    /\ calls = <<>>

\* C2: every path returns a batch of shape (1, npoints, dim) and, with return_weight, a
\* weight of shape (1, npoints), and otherwise the points alone; no view fails; the
\* surface sampler hands over npoints points, the raw batch of its one attempt
C2_ReturnShapes ==
    /\ err # "RuntimeError"
    /\ pc = "done" =>
          /\ Len(ret) = (IF lp.return_weight THEN 2 ELSE 1)
          /\ Len(ret[1]) = 1 /\ Len(ret[1][1]) = lp.npoints
          /\ \A k \in 1..lp.npoints : Len(ret[1][1][k]) = lp.dim
          /\ lp.return_weight => (Len(ret[2].w) = 1 /\ Len(ret[2].w[1]) = lp.npoints)
    /\ already_repeated <= 1
    /\ pc = "loss_sampled" =>
          /\ Len(result) = lp.npoints
          /\ sp.kind = "defaut" => (Len(log) = 1 /\ result = log[1])
\* the inverted surface path returned points and weight from the default sampler
C2_Witness ==
    /\ pc = "done" /\ lp.use_surf_points /\ lp.invert_sampling
    /\ lp.return_weight /\ ~lp.use_rejection /\ lp.npoints = MaxN

\* C3 as stated: on both inverted paths a missing deform or gtr fails the call before
\* any sampling, inversion or weight computation
C3_InvertedPathsRequireBoth ==
    (lp.invert_sampling /\ (lp.deform = "None" \/ lp.gtr = "None")) =>
        (FailedOnEntry /\ NothingSampled)
\* C3, amended: the inverted surface path requires deform and gtr and fails before any
\* sampling, inversion or weight computation; the inverted volumetric path requires
\* deform alone and fails after the uniform draw, before any inversion or weight
\* computation; it does not check gtr and goes on to the inversion and the weight
C3_Amended ==
    /\ (lp.use_surf_points /\ lp.invert_sampling /\ (lp.deform = "None" \/ lp.gtr = "None")) =>
          (FailedOnEntry /\ NothingSampled)
    /\ (~lp.use_surf_points /\ lp.invert_sampling /\ lp.deform = "None") =>
          (FailedOnEntry /\ weight \in {NoWeight, Ones(lp.npoints)})
    /\ (~lp.use_surf_points /\ lp.invert_sampling /\ lp.deform # "None" /\ pc # "loss_start") =>
          (Len(calls) = 2 /\ x # <<>>)
\* the inverted volumetric path returned although gtr was missing
C3_Witness ==
    /\ pc = "done" /\ ~lp.use_surf_points /\ lp.invert_sampling
    /\ lp.gtr = "None" /\ lp.deform # "None"

\* C7: the forward paths never invert or weigh and return the weight of ones; the
\* inverted paths call deform.invert once, with iters = 30, on the target points, and
\* then compute_deform_weight once on the pulled-back points, with surface set on the
\* surface path only and detach = detach_weight; the surface paths sample gtr when
\* inverted and net otherwise
C7_PathsAndCalls ==
    /\ ~lp.invert_sampling =>
          (calls = <<>> /\ (pc = "done" => weight = Ones(lp.npoints)))
    /\ InSampler => sp.net = (IF lp.invert_sampling THEN lp.gtr ELSE lp.net)
    /\ (lp.invert_sampling /\ pc = "done") => calls # <<>>
    /\ calls # <<>> =>
          /\ Len(calls) = 2
          /\ calls[1].op = "invert" /\ calls[1].iters = 30
          /\ IF lp.use_surf_points
             THEN calls[1].arg = result
             ELSE calls[1].arg \in [1..lp.npoints -> UniformDraws(lp.dim)]
          /\ calls[2].op = "weight"
          /\ calls[2].arg = InvertBatch(lp.deform, calls[1].arg) /\ calls[2].arg = x
          /\ calls[2].surface = lp.use_surf_points
          /\ calls[2].detach = lp.detach_weight
\* the inverted surface path returned with a weight that was not detached
C7_Witness ==
    /\ pc = "done" /\ lp.use_surf_points /\ lp.invert_sampling
    /\ ~lp.detach_weight /\ Len(calls) = 2 /\ weight.requires_grad

====
